---------------------------- MODULE Spec2Model ----------------------------
(***************************************************************************)
(* A model of src/main.py: the EasyJetCollector class (coordinate table,   *)
(* calculate_distance, get_all_flights, save_to_csv) and the main flow.    *)
(*                                                                         *)
(* Numbers.  Python floats are modelled in fixed point: a real x is the    *)
(* integer x * Scale, rounded to nearest with ties away from zero, so      *)
(* that, as in IEEE-754 arithmetic, every operation commutes with a change *)
(* of sign of its result.  Coordinates are degrees * 10^4 (the table gives *)
(* four decimals).  A distance is a whole number of hundredths of a        *)
(* kilometre, which is what round(distance, 2) keeps.                      *)
(***************************************************************************)
EXTENDS Integers, Sequences, FiniteSets

(***************************************************************************)
(* Fixed-point arithmetic (the float operations of lines 45-53).           *)
(***************************************************************************)
Scale == 1000000
Limb == 1000

Abs(x) == IF x < 0 THEN -x ELSE x

Sgn(x) == IF x < 0 THEN -1 ELSE 1

\* a / b rounded to nearest, ties away from zero (b > 0).
Div(a, b) == Sgn(a) * ((Abs(a) + b \div 2) \div b)

\* The exact product of magnitudes x * y = ProductHi * Scale + ProductLo, by
\* limbs so that no intermediate exceeds 32 bits.
ProductMid(x, y) == (x \div Limb) * (y % Limb) + (x % Limb) * (y \div Limb)

ProductLow(x, y) == (ProductMid(x, y) % Limb) * Limb + (x % Limb) * (y % Limb)

ProductHi(x, y) ==
    (x \div Limb) * (y \div Limb) + ProductMid(x, y) \div Limb + ProductLow(x, y) \div Scale

ProductLo(x, y) == ProductLow(x, y) % Scale

\* x * y, rounded to nearest
Mul(x, y) ==
    Sgn(x) * Sgn(y) * (ProductHi(Abs(x), Abs(y))
                       + (IF 2 * ProductLo(Abs(x), Abs(y)) >= Scale THEN 1 ELSE 0))

\* x * y <= n exactly, for magnitudes
ProductAtMost(x, y, n) ==
    \/ ProductHi(x, y) < n
    \/ ProductHi(x, y) = n /\ ProductLo(x, y) = 0

\* The largest r in lo..hi with r * r <= a (bisection).
RECURSIVE SqrtBetween(_, _, _)
SqrtBetween(a, lo, hi) ==
    IF lo >= hi THEN lo
    ELSE LET mid == (lo + hi + 1) \div 2
         IN  IF ProductAtMost(mid, mid, a) THEN SqrtBetween(a, mid, hi)
             ELSE SqrtBetween(a, lo, mid - 1)

\* math.sqrt on 0 <= a <= 4
sqrt(a) == SqrtBetween(a, 0, 2 * Scale)

\* The largest q in lo..hi with q * d <= n (bisection).
RECURSIVE QuotBetween(_, _, _, _)
QuotBetween(n, d, lo, hi) ==
    IF lo >= hi THEN lo
    ELSE LET mid == (lo + hi + 1) \div 2
         IN  IF ProductAtMost(mid, d, n) THEN QuotBetween(n, d, mid, hi)
             ELSE QuotBetween(n, d, lo, mid - 1)

\* n / d for 0 <= n <= d, d > 0
Quot(n, d) == QuotBetween(n, d, 0, Scale)

\* term - term * x2 / ((k+1)(k+2)) + ..., until the term vanishes.
RECURSIVE FactorialSeries(_, _, _)
FactorialSeries(term, x2, k) ==
    IF term = 0 THEN 0
    ELSE term + FactorialSeries(-Div(Mul(term, x2), (k + 1) * (k + 2)), x2, k + 2)

\* math.sin on -pi/2 .. pi/2: x - x^3/3! + x^5/5! - ...
sin(x) == FactorialSeries(x, Mul(x, x), 1)

\* math.cos on -pi/2 .. pi/2: 1 - x^2/2! + x^4/4! - ...
cos(x) == FactorialSeries(Scale, Mul(x, x), 0)

\* power / k - power * x2 / (k+2) + ..., until the power vanishes.
RECURSIVE OddSeries(_, _, _)
OddSeries(power, x2, k) ==
    IF power = 0 THEN 0
    ELSE Div(power, k) + OddSeries(-Mul(power, x2), x2, k + 2)

HalfPi == 1570796

\* atan(t) for 0 <= t <= 1: 2 * atan(t / (1 + sqrt(1 + t^2))), by its series.
atan(t) ==
    LET u == Quot(t, Scale + sqrt(Scale + Mul(t, t)))
    IN  2 * OddSeries(u, Mul(u, u), 1)

\* math.atan2 for y >= 0, x >= 0
atan2(y, x) ==
    IF y = 0 THEN 0
    ELSE IF y <= x THEN atan(Quot(y, x))
    ELSE HalfPi - atan(Quot(x, y))

\* pi / 180, times 100: a coordinate is degrees * 10^4 and Scale is 10^6.
RadiansPerDegree == 1745329

\* math.radians of a coordinate
radians(deg) == Mul(deg, RadiansPerDegree)

(***************************************************************************)
(* JSON values.  A dict is a function on its keys; the dict with no keys   *)
(* is <<>>, and a list is a sequence.                                      *)
(***************************************************************************)
NoFields == <<>>

\* dict.get(key, default)
Get(d, key, default) == IF key \in DOMAIN d THEN d[key] ELSE default

\* float('inf'): above every fare
Inf == 2000000000

(***************************************************************************)
(* The coordinate table and the distance calculator.                       *)
(***************************************************************************)
\* _load_airport_coordinates: code |-> <<latitude, longitude>>
airport_coords ==
    [LGW |-> <<511537, -1821>>,
     BCN |-> <<412974, 20833>>,
     CDG |-> <<490097, 25479>>]

\* Earth's radius in kilometres.
R == 6371

\* A formula that took the cosine of the first latitude twice.
haversine_one_latitude(lat1d, lon1d, lat2d, lon2d) ==
    LET lat1 == radians(lat1d)
        lon1 == radians(lon1d)
        lat2 == radians(lat2d)
        lon2 == radians(lon2d)
        dlat == lat2 - lat1
        dlon == lon2 - lon1
        sdlat == sin(Div(dlat, 2))
        sdlon == sin(Div(dlon, 2))
        a == Mul(sdlat, sdlat) + Mul(Mul(cos(lat1), cos(lat1)), Mul(sdlon, sdlon))
    IN  2 * atan2(sqrt(a), sqrt(Scale - a))

\* lines 45-50: c = 2 * atan2(sqrt(a), sqrt(1 - a)), a = sin^2(dlat/2) + cos cos sin^2(dlon/2)
haversine(lat1d, lon1d, lat2d, lon2d) ==
    LET lat1 == radians(lat1d)
        lon1 == radians(lon1d)
        lat2 == radians(lat2d)
        lon2 == radians(lon2d)
        dlat == lat2 - lat1
        dlon == lon2 - lon1
        sdlat == sin(Div(dlat, 2))
        sdlon == sin(Div(dlon, 2))
        a == Mul(sdlat, sdlat) + Mul(Mul(cos(lat1), cos(lat2)), Mul(sdlon, sdlon))
    IN  2 * atan2(sqrt(a), sqrt(Scale - a))

\* round(R * c, 2), in hundredths of a kilometre
round2(c) == Mul(R * 100, c)

\* A calculator that took (0, 0) for the coordinates of a code it did not know.
calculate_distance_default(origin, destination) ==
    round2(haversine(Get(airport_coords, origin, <<0, 0>>)[1],
                     Get(airport_coords, origin, <<0, 0>>)[2],
                     Get(airport_coords, destination, <<0, 0>>)[1],
                     Get(airport_coords, destination, <<0, 0>>)[2]))

\* lines 37-53
calculate_distance(origin, destination) ==
    IF origin \notin DOMAIN airport_coords \/ destination \notin DOMAIN airport_coords
    THEN 0
    ELSE round2(haversine(airport_coords[origin][1], airport_coords[origin][2],
                          airport_coords[destination][1], airport_coords[destination][2]))

(***************************************************************************)
(* Bounds of the model and the inputs drawn within them.                   *)
(***************************************************************************)
MaxRoutes == 2
MaxFlights == 2

SeqsUpTo(S, n) == UNION {[1..k -> S] : k \in 0..n}

\* Destinations a routes response may name: two of the table, far and near,
\* and one the table does not hold, longer than the console's column.
Destinations == {"BCN", "CDG", "LONDON-LUTON"}

\* Fares, in hundredths.
Fares == {8000, 12000}

\* The origin of a direct call of get_all_flights: one the table lacks
\* (main's is "LGW").
CallOrigins == {"AMS"}

\* Arguments calculate_distance is called with.
Codes == {"LGW", "BCN", "CDG", "AMS", "MAD", "LONDON-LUTON"}

RouteRecords == {[destination |-> d] : d \in Destinations} \cup {NoFields}

FlightRecords ==
    {[pricing |-> [lowestFare |-> f]] : f \in Fares}
        \cup {[pricing |-> NoFields], NoFields}

RoutesBodies ==
    {[routes |-> rs] : rs \in SeqsUpTo(RouteRecords, MaxRoutes)} \cup {NoFields}

FlightsBodies ==
    {[flights |-> fs] : fs \in SeqsUpTo(FlightRecords, MaxFlights)} \cup {NoFields}

(***************************************************************************)
(* State.                                                                  *)
(***************************************************************************)
VARIABLES
    entry,            \* "main": main() runs; "call": get_all_flights is called directly
    pc,               \* position in the code
    origin_airport,   \* get_all_flights' argument
    all_destinations, \* line 72
    next_route,       \* index in all_destinations of the loop's next route
    flights,          \* line 95: the last flights list received
    flight_data,      \* line 73, lines 108-112
    result,           \* what get_all_flights returned: main's list `flights`
    http_log,         \* the requests issued so far, each with its outcome
    csv_file,         \* the lines of easyjet_flights.csv; <<>> when not written
    console,          \* the lines printed
    arg_origin,       \* calculate_distance called on its own: its arguments,
    arg_destination,
    distance_fwd,     \* calculate_distance(arg_origin, arg_destination), -1 before the call
    distance_rev      \* calculate_distance(arg_destination, arg_origin), -1 before the call

vars == <<entry, pc, origin_airport, all_destinations, next_route, flights,
          flight_data, result, http_log, csv_file, console,
          arg_origin, arg_destination, distance_fwd, distance_rev>>

collector_vars == <<entry, pc, origin_airport, all_destinations, next_route, flights,
                    flight_data, result, http_log, csv_file, console>>

distance_vars == <<arg_origin, arg_destination, distance_fwd, distance_rev>>

(***************************************************************************)
(* get_all_flights                                                         *)
(***************************************************************************)
\* An entry of http_log: the request, whether it succeeded, and whether the
\* list it brought back held anything.
Request(endpoint, destination, status, nonempty) ==
    [endpoint |-> endpoint, destination |-> destination, status |-> status,
     nonempty |-> nonempty]

\* lines 116-118: the handler of RequestException
except_message == <<"Error fetching flight data">>

\* A handler that returned what had been collected so far.
except_return_partial(data) == data

except_return(data) == <<>>

\* A reduction in which a missing fare counts as nothing to pay.
RECURSIVE min_fare_missing_is_zero(_)
min_fare_missing_is_zero(fs) ==
    LET fare == Get(Get(Head(fs), "pricing", NoFields), "lowestFare", 0)
    IN  IF Len(fs) = 1 THEN fare
        ELSE LET rest == min_fare_missing_is_zero(Tail(fs))
             IN  IF rest < fare THEN rest ELSE fare

\* lines 99-102: min over the fares, a missing fare counting as float('inf')
RECURSIVE min_fare(_)
min_fare(fs) ==
    LET fare == Get(Get(Head(fs), "pricing", NoFields), "lowestFare", Inf)
    IN  IF Len(fs) = 1 THEN fare
        ELSE LET rest == min_fare(Tail(fs))
             IN  IF rest < fare THEN rest ELSE fare

\* calculate_distance on the codes of the model, evaluated once
distance_of == [origin \in Codes, destination \in Codes |-> calculate_distance(origin, destination)]

\* A loop that put each new row first.
collect_prepend(data, origin, destination, fs) ==
    IF fs # <<>>
    THEN <<<<distance_of[origin, destination], destination, min_fare(fs)>>>> \o data
    ELSE data

\* lines 98-112: the rows after the flights of one destination
collect(data, origin, destination, fs) ==
    IF fs # <<>>
    THEN Append(data, <<distance_of[origin, destination], destination, min_fare(fs)>>)
    ELSE data

\* lines 69-70 raise: the routes request fails
RoutesRequestFails ==
    /\ pc = "start"
    /\ http_log' = Append(http_log, Request("routes", origin_airport, "error", FALSE))
    /\ console' = Append(console, except_message)
    /\ result' = except_return(flight_data)
    /\ pc' = "returned"
    /\ UNCHANGED <<entry, origin_airport, all_destinations, next_route, flights,
                   flight_data, csv_file>>
    /\ UNCHANGED distance_vars

\* lines 69-73: the routes request succeeds
RoutesRequestSucceeds ==
    /\ pc = "start"
    /\ \E body \in RoutesBodies :
          all_destinations' = Get(body, "routes", <<>>)
    /\ http_log' = Append(http_log,
           Request("routes", origin_airport, "ok", all_destinations' # <<>>))
    /\ flight_data' = <<>>
    /\ next_route' = 1
    /\ pc' = "loop"
    /\ UNCHANGED <<entry, origin_airport, flights, result, csv_file, console>>
    /\ UNCHANGED distance_vars

\* A lookup whose KeyError the handler caught like a failed request.
DestinationMissingCaught ==
    /\ pc = "loop"
    /\ next_route <= Len(all_destinations)
    /\ "destination" \notin DOMAIN all_destinations[next_route]
    /\ console' = Append(console, except_message)
    /\ result' = except_return(flight_data)
    /\ pc' = "returned"
    /\ UNCHANGED <<entry, origin_airport, all_destinations, next_route, flights,
                   flight_data, http_log, csv_file>>
    /\ UNCHANGED distance_vars

\* line 77: route['destination'] raises KeyError, which nothing catches
DestinationMissing ==
    /\ pc = "loop"
    /\ next_route <= Len(all_destinations)
    /\ "destination" \notin DOMAIN all_destinations[next_route]
    /\ pc' = "raised"
    /\ UNCHANGED <<entry, origin_airport, all_destinations, next_route, flights,
                   flight_data, result, http_log, csv_file, console>>
    /\ UNCHANGED distance_vars

\* A loop that tried the next route's request again after a failure.
FlightsRequestRetried ==
    /\ pc = "loop"
    /\ next_route <= Len(all_destinations)
    /\ "destination" \in DOMAIN all_destinations[next_route]
    /\ http_log' = Append(http_log,
           Request("flights", all_destinations[next_route]["destination"], "error", FALSE))
    /\ console' = Append(console, except_message)
    /\ UNCHANGED <<entry, pc, origin_airport, all_destinations, next_route, flights,
                   flight_data, result, csv_file>>
    /\ UNCHANGED distance_vars

\* lines 77-93 raise: the flights request of the next route fails
FlightsRequestFails ==
    /\ pc = "loop"
    /\ next_route <= Len(all_destinations)
    /\ "destination" \in DOMAIN all_destinations[next_route]
    /\ http_log' = Append(http_log,
           Request("flights", all_destinations[next_route]["destination"], "error", FALSE))
    /\ console' = Append(console, except_message)
    /\ result' = except_return(flight_data)
    /\ pc' = "returned"
    /\ UNCHANGED <<entry, origin_airport, all_destinations, next_route, flights,
                   flight_data, csv_file>>
    /\ UNCHANGED distance_vars

\* lines 77-112: the flights request of the next route succeeds
FlightsRequestSucceeds ==
    /\ pc = "loop"
    /\ next_route <= Len(all_destinations)
    /\ "destination" \in DOMAIN all_destinations[next_route]
    /\ LET destination == all_destinations[next_route]["destination"]
       IN  /\ \E body \in FlightsBodies :
                 flights' = Get(body, "flights", <<>>)
           /\ http_log' = Append(http_log,
                  Request("flights", destination, "ok", flights' # <<>>))
           /\ flight_data' = collect(flight_data, origin_airport, destination, flights')
    /\ next_route' = next_route + 1
    /\ UNCHANGED <<entry, pc, origin_airport, all_destinations, result, csv_file, console>>
    /\ UNCHANGED distance_vars

\* line 114: the loop is over
ReturnFlightData ==
    /\ pc = "loop"
    /\ next_route > Len(all_destinations)
    /\ result' = flight_data
    /\ pc' = "returned"
    /\ UNCHANGED <<entry, origin_airport, all_destinations, next_route, flights,
                   flight_data, http_log, csv_file, console>>
    /\ UNCHANGED distance_vars

(***************************************************************************)
(* main: sort, save_to_csv, print                                          *)
(***************************************************************************)
\* The row goes after every row whose distance is at most its own.
RECURSIVE insert_by_distance(_, _)
insert_by_distance(sorted, row) ==
    IF sorted = <<>> THEN <<row>>
    ELSE IF sorted[Len(sorted)][1] <= row[1] THEN Append(sorted, row)
    ELSE Append(insert_by_distance(SubSeq(sorted, 1, Len(sorted) - 1), row),
                sorted[Len(sorted)])

\* A main that left the rows as collected.
unsorted(rows) == rows

\* line 140: list.sort(key=lambda x: x[0]), a stable sort
RECURSIVE sort_by_distance(_)
sort_by_distance(rows) ==
    IF rows = <<>> THEN <<>>
    ELSE insert_by_distance(sort_by_distance(SubSeq(rows, 1, Len(rows) - 1)),
                            rows[Len(rows)])

\* line 124
csv_header == <<"Distance (km)", "Destination", "Lowest Price">>

\* A writer that left the file alone when it had no row to write.
save_rows_if_any(data) == IF data = <<>> THEN <<>> ELSE <<csv_header>> \o data

\* lines 122-125: the file's lines, each the list of its fields.  A data
\* line keeps the row's values; their spelling as text is not modelled.
save_to_csv(data) == <<csv_header>> \o data

Digit(d) ==
    CASE d = 0 -> "0" [] d = 1 -> "1" [] d = 2 -> "2" [] d = 3 -> "3" [] d = 4 -> "4"
      [] d = 5 -> "5" [] d = 6 -> "6" [] d = 7 -> "7" [] d = 8 -> "8" [] d = 9 -> "9"

RECURSIVE Decimal(_)
Decimal(n) == IF n < 10 THEN Digit(n) ELSE Decimal(n \div 10) \o Digit(n % 10)

RECURSIVE Spaces(_)
Spaces(n) == IF n <= 0 THEN "" ELSE " " \o Spaces(n - 1)

\* format(value, '<width>.2f') of a number of hundredths: right-aligned in
\* at least width characters
format_f(value, width) ==
    LET text == IF value = Inf THEN "inf"
                ELSE Decimal(value \div 100) \o "." \o Digit((value \div 10) % 10)
                         \o Digit(value % 10)
    IN  Spaces(width - Len(text)) \o text

\* A column that aligned the text to the right.
format_s_right(text, width) == Spaces(width - Len(text)) \o text

\* format(text, '<width>') of a string: left-aligned in at least width characters
format_s(text, width) == text \o Spaces(width - Len(text))

\* line 150: the fields of a printed row, which " | " separates
print_row(row) == <<format_f(row[1], 11), format_s(row[2], 11), format_f(row[3], 5)>>

\* lines 146-148
print_header ==
    << <<"Flights found:">>,
       <<"Distance (km)", "Destination", "Price">>,
       <<"----------------------------------------">> >>

\* line 140
SortFlights ==
    /\ entry = "main"
    /\ pc = "returned"
    /\ result' = sort_by_distance(result)
    /\ pc' = "sorted"
    /\ UNCHANGED <<entry, origin_airport, all_destinations, next_route, flights,
                   flight_data, http_log, csv_file, console>>
    /\ UNCHANGED distance_vars

\* line 143
SaveToCsv ==
    /\ pc = "sorted"
    /\ csv_file' = save_to_csv(result)
    /\ pc' = "saved"
    /\ UNCHANGED <<entry, origin_airport, all_destinations, next_route, flights,
                   flight_data, result, http_log, console>>
    /\ UNCHANGED distance_vars

\* lines 146-150
PrintResults ==
    /\ pc = "saved"
    /\ console' = console \o print_header \o [k \in 1..Len(result) |-> print_row(result[k])]
    /\ pc' = "done"
    /\ UNCHANGED <<entry, origin_airport, all_destinations, next_route, flights,
                   flight_data, result, http_log, csv_file>>
    /\ UNCHANGED distance_vars

(***************************************************************************)
(* The specification of a run: main(), or a call of get_all_flights.       *)
(***************************************************************************)
Init ==
    /\ entry \in {"main", "call"}
    /\ origin_airport \in (IF entry = "main" THEN {"LGW"} ELSE CallOrigins)
    /\ pc = "start"
    /\ all_destinations = <<>>
    /\ next_route = 1
    /\ flights = <<>>
    /\ flight_data = <<>>
    /\ result = <<>>
    /\ http_log = <<>>
    /\ csv_file = <<>>
    /\ console = <<>>
    /\ arg_origin = ""
    /\ arg_destination = ""
    /\ distance_fwd = -1
    /\ distance_rev = -1

Next ==
    \/ RoutesRequestFails
    \/ RoutesRequestSucceeds
    \/ DestinationMissing
    \/ FlightsRequestFails
    \/ FlightsRequestSucceeds
    \/ ReturnFlightData
    \/ SortFlights
    \/ SaveToCsv
    \/ PrintResults

Spec == Init /\ [][Next]_vars

(***************************************************************************)
(* The specification of calculate_distance called on its own, on a pair of *)
(* codes and on the pair reversed.                                         *)
(***************************************************************************)
CallForward ==
    /\ distance_fwd = -1
    /\ distance_fwd' = calculate_distance(arg_origin, arg_destination)
    /\ UNCHANGED <<arg_origin, arg_destination, distance_rev>>
    /\ UNCHANGED collector_vars

CallReverse ==
    /\ distance_rev = -1
    /\ distance_rev' = calculate_distance(arg_destination, arg_origin)
    /\ UNCHANGED <<arg_origin, arg_destination, distance_fwd>>
    /\ UNCHANGED collector_vars

InitDistance ==
    /\ arg_origin \in Codes
    /\ arg_destination \in Codes
    /\ distance_fwd = -1
    /\ distance_rev = -1
    /\ entry = "distance"
    /\ origin_airport = ""
    /\ pc = "idle"
    /\ all_destinations = <<>>
    /\ next_route = 1
    /\ flights = <<>>
    /\ flight_data = <<>>
    /\ result = <<>>
    /\ http_log = <<>>
    /\ csv_file = <<>>
    /\ console = <<>>

NextDistance == CallForward \/ CallReverse

SpecDistance == InitDistance /\ [][NextDistance]_vars

(***************************************************************************)
(* Properties.                                                             *)
(***************************************************************************)
\* A request has failed.
Failed == \E k \in 1..Len(http_log) : http_log[k].status = "error"

\* get_all_flights has returned (rather than raised, or still running).
Returned == pc \in {"returned", "sorted", "saved", "done"}

\* The destinations of a sequence of rows.
DestinationsOf(rows) == [k \in 1..Len(rows) |-> rows[k][2]]

\* C1: once a request has failed, the routes request or the flights request
\* of any route, get_all_flights has returned and returned the empty list,
\* whatever rows it had collected.
C1_FailureReturnsEmpty == Failed => Returned /\ result = <<>>

\* A flights request failed after rows had been collected: they are dropped.
C1_Witness ==
    /\ Failed
    /\ http_log[Len(http_log)].endpoint = "flights"
    /\ flight_data # <<>>
    /\ pc = "returned"
    /\ result = <<>>

\* The destinations of the first n routes whose flights list was not empty,
\* in the order of the routes response.
RECURSIVE RoutesWithFlights(_)
RoutesWithFlights(n) ==
    IF n = 0 THEN <<>>
    ELSE IF http_log[n + 1].nonempty
         THEN Append(RoutesWithFlights(n - 1), all_destinations[n]["destination"])
         ELSE RoutesWithFlights(n - 1)

\* C2: when get_all_flights returns and no request failed, the destinations
\* of its rows are those of the routes whose flights list was not empty, in
\* the order of the routes response, so there are as many rows as routes
\* less the routes with an empty flights list.
C2_RowsAreRoutesWithFlights ==
    pc = "returned" /\ ~Failed =>
        /\ Len(http_log) = Len(all_destinations) + 1
        /\ DestinationsOf(result) = RoutesWithFlights(Len(all_destinations))
        /\ Len(result) = Len(all_destinations)
               - Cardinality({k \in 1..Len(all_destinations) : ~http_log[k + 1].nonempty})

\* Two routes with flights, in an order the distances would not give, and
\* a run with a route whose flights list is empty.
C2_Witness ==
    /\ pc = "returned"
    /\ ~Failed
    /\ Len(all_destinations) = MaxRoutes
    /\ ~http_log[2].nonempty
    /\ Len(result) = MaxRoutes - 1
    /\ result[1][2] = "BCN"

\* Whether a flight record has a fare, and the fare it has.
HasFare(flight) ==
    /\ "pricing" \in DOMAIN flight
    /\ "lowestFare" \in DOMAIN flight["pricing"]

\* price is the least fare of the records of fs, one without a fare counting
\* as infinite: infinite exactly when no record has a fare.
IsLowestFare(price, fs) ==
    /\ \A k \in 1..Len(fs) : HasFare(fs[k]) => price <= fs[k]["pricing"]["lowestFare"]
    /\ \/ \E k \in 1..Len(fs) : HasFare(fs[k]) /\ price = fs[k]["pricing"]["lowestFare"]
       \/ price = Inf /\ \A k \in 1..Len(fs) : ~HasFare(fs[k])

\* The loop has just received a flights list that was not empty.
JustCollected ==
    /\ pc = "loop"
    /\ Len(http_log) > 1
    /\ http_log[Len(http_log)].nonempty

\* The row appended for the flights list just received has its least fare.
C3_LastRow ==
    JustCollected =>
        /\ flights # <<>>
        /\ flight_data # <<>>
        /\ IsLowestFare(flight_data[Len(flight_data)][3], flights)

\* A row once appended stays as it is, and the rows returned when no
\* request failed are the rows appended.
C3_RowsKept ==
    /\ pc = "loop" /\ pc' = "loop" =>
           SubSeq(flight_data', 1, Len(flight_data)) = flight_data
    /\ pc = "loop" /\ pc' = "returned" /\ ~Failed' => result' = flight_data

\* C3: every row's price is the minimum fare of the flight records received
\* for its destination, a record without a fare counting as +infinity: such
\* a record never lowers the price, and the price is infinite only when no
\* record has a fare, the row being emitted all the same.  The row has that
\* price when it is appended, and is returned as appended.
C3_PriceIsLowestFare == []C3_LastRow /\ [][C3_RowsKept]_vars

\* A record without a fare before a record with one: the row has the fare.
C3_Witness ==
    /\ JustCollected
    /\ Len(flights) = 2
    /\ ~HasFare(flights[1])
    /\ HasFare(flights[2])
    /\ flight_data[Len(flight_data)][3] = flights[2]["pricing"]["lowestFare"]

\* C4: the requests are issued one after the other in a fixed order: one
\* routes request first, then for each route record, in the order of the
\* routes response, one flights request, each after the one before it has
\* succeeded; none is repeated and none follows a failure.
C4_RequestsInOrder ==
    /\ pc = "start" <=> http_log = <<>>
    /\ \A k \in 1..Len(http_log) :
          /\ k = 1 <=> http_log[k].endpoint = "routes"
          /\ k > 1 =>
                /\ http_log[k].endpoint = "flights"
                /\ k - 1 <= Len(all_destinations)
                /\ "destination" \in DOMAIN all_destinations[k - 1]
                /\ http_log[k].destination = all_destinations[k - 1]["destination"]
          /\ k < Len(http_log) => http_log[k].status = "ok"
    /\ pc = "loop" => Len(http_log) = next_route
    /\ Returned /\ ~Failed => Len(http_log) = Len(all_destinations) + 1

\* A run that issued every request: routes, then the routes' flights in order.
C4_Witness ==
    /\ pc = "returned"
    /\ ~Failed
    /\ Len(http_log) = 3
    /\ http_log[2].destination = "CDG"
    /\ http_log[3].destination = "BCN"

\* The airport has coordinates.
Known(code) == code \in DOMAIN airport_coords

\* C5: calculate_distance is 0 whenever either code is absent from the
\* table, so a row whose origin or destination is absent has distance 0,
\* and a destination with flights gets its row all the same.
C5_UnknownDistanceIsZero ==
    /\ \A a \in Codes, b \in Codes :
          ~Known(a) \/ ~Known(b) => calculate_distance(a, b) = 0
    /\ \A k \in 1..Len(flight_data) :
          ~Known(origin_airport) \/ ~Known(flight_data[k][2]) => flight_data[k][1] = 0
    /\ \A k \in 1..Len(result) :
          ~Known(origin_airport) \/ ~Known(result[k][2]) => result[k][1] = 0
    /\ JustCollected =>
          /\ flight_data # <<>>
          /\ flight_data[Len(flight_data)][2] = http_log[Len(http_log)].destination

\* From an origin the table holds, a row for a destination it does not hold.
C5_Witness ==
    /\ Known(origin_airport)
    /\ pc = "returned"
    /\ \E k \in 1..Len(result) : ~Known(result[k][2]) /\ result[k][1] = 0
    /\ \E k \in 1..Len(result) : Known(result[k][2]) /\ result[k][1] > 0

\* The routes request failed.
RoutesFailed == http_log # <<>> /\ http_log[1].status = "error"

\* C6: in main, when the routes request fails, the collection returns the
\* empty list and the run goes on to write the CSV file, which then holds
\* the header line and no data line.
C6_RoutesFailureWritesHeaderOnly ==
    entry = "main" /\ RoutesFailed =>
        /\ Returned
        /\ result = <<>>
        /\ pc # "done" => ENABLED Next
        /\ pc \in {"returned", "sorted"} => csv_file = <<>>
        /\ pc \in {"saved", "done"} => csv_file = <<csv_header>>

\* The run is over and the file holds the header alone.
C6_Witness ==
    /\ entry = "main"
    /\ RoutesFailed
    /\ pc = "done"
    /\ csv_file = <<csv_header>>

\* The number of times a row occurs in a sequence of rows.
Occurrences(row, rows) == Cardinality({k \in 1..Len(rows) : rows[k] = row})

\* The same rows, each as many times.
SameRows(rows1, rows2) ==
    /\ Len(rows1) = Len(rows2)
    /\ \A k \in 1..Len(rows1) : Occurrences(rows1[k], rows1) = Occurrences(rows1[k], rows2)

\* The data lines of the file.
CsvRows == SubSeq(csv_file, 2, Len(csv_file))

\* C7: the file main writes holds the header, then the rows get_all_flights
\* returned, each once, in ascending order of distance: main sorts them and
\* save_to_csv writes them in the order given.
C7_CsvSortedByDistance ==
    pc \in {"saved", "done"} =>
        /\ csv_file # <<>>
        /\ csv_file[1] = csv_header
        /\ CsvRows = result
        /\ SameRows(CsvRows, IF Failed THEN <<>> ELSE flight_data)
        /\ \A k \in 1..(Len(CsvRows) - 1) : CsvRows[k][1] <= CsvRows[k + 1][1]

\* The rows were collected far destination first and written near one first.
C7_Witness ==
    /\ pc = "saved"
    /\ Len(flight_data) = 2
    /\ flight_data[1][2] = "BCN"
    /\ flight_data[2][2] = "CDG"
    /\ csv_file[2][2] = "CDG"
    /\ csv_file[3][2] = "BCN"
    /\ csv_file[2][1] < csv_file[3][1]

\* C8: for two airports of the coordinate table, the distance from the one
\* to the other is the distance from the other to the one.
C8_DistanceSymmetric ==
    /\ Known(arg_origin)
    /\ Known(arg_destination)
    /\ distance_fwd # -1
    /\ distance_rev # -1
    => distance_fwd = distance_rev

\* Two distinct airports of the table, measured both ways.
C8_Witness ==
    /\ Known(arg_origin)
    /\ Known(arg_destination)
    /\ arg_origin # arg_destination
    /\ distance_fwd > 0
    /\ distance_rev = distance_fwd

\* The line printed for the k-th row.
PrintedRow(k) == console[Len(console) - Len(result) + k]

\* C9, as claimed: every destination is printed in exactly 11 characters.
C9_AsClaimed ==
    pc = "done" => \A k \in 1..Len(result) : Len(PrintedRow(k)[2]) = 11

\* C9, amended: every destination is printed whole, followed by the spaces
\* that bring it to 11 characters when it is shorter; a longer destination
\* is not cut.
C9_DestinationPaddedNotCut ==
    pc = "done" =>
        /\ Len(console) >= Len(result) + 3
        /\ \A k \in 1..Len(result) :
              LET name == result[k][2]
                  field == PrintedRow(k)[2]
              IN  /\ Len(field) = IF Len(name) < 11 THEN 11 ELSE Len(name)
                  /\ \E n \in 0..11 : field = name \o Spaces(n)

\* A short destination and a long one, both printed.
C9_Witness ==
    /\ pc = "done"
    /\ Len(result) = 2
    /\ result[1][2] = "LONDON-LUTON"
    /\ PrintedRow(1)[2] = "LONDON-LUTON"
    /\ PrintedRow(2)[2] = "CDG        "

\* The routes response held a record with no destination.
MissingDestination ==
    \E k \in 1..Len(all_destinations) : "destination" \notin DOMAIN all_destinations[k]

\* The first such record.
FirstMissing ==
    CHOOSE k \in 1..Len(all_destinations) :
        /\ "destination" \notin DOMAIN all_destinations[k]
        /\ \A j \in 1..(k - 1) : "destination" \in DOMAIN all_destinations[j]

\* get_all_flights is running.
Running == pc \in {"start", "loop"}

\* C10, as claimed: a record with no destination makes get_all_flights
\* raise instead of returning, and no CSV file is written.
C10_AsClaimed ==
    MissingDestination /\ ~Running => pc = "raised" /\ csv_file = <<>>

\* C10, amended: a record with no destination makes get_all_flights raise
\* when the loop reaches it, and then nothing more runs and no CSV file is
\* written; the loop fails to reach it only when the flights request of an
\* earlier record fails, and then the empty list is returned as for any
\* failed request.
C10_MissingDestinationRaises ==
    /\ pc = "raised" =>
          /\ MissingDestination
          /\ next_route = FirstMissing
          /\ ~Failed
          /\ csv_file = <<>>
          /\ ~ENABLED Next
    /\ MissingDestination /\ pc = "loop" /\ next_route = FirstMissing =>
          /\ ENABLED DestinationMissing
          /\ ~ENABLED FlightsRequestFails
          /\ ~ENABLED FlightsRequestSucceeds
          /\ ~ENABLED ReturnFlightData
    /\ MissingDestination /\ ~Running /\ pc # "raised" =>
          /\ Failed
          /\ Len(http_log) - 1 < FirstMissing
          /\ result = <<>>

\* In main, a record with no destination after one whose flights were
\* collected: the run stopped there, with no file.
C10_Witness ==
    /\ entry = "main"
    /\ pc = "raised"
    /\ next_route = 2
    /\ flight_data # <<>>
    /\ csv_file = <<>>

=============================================================================
